---- MODULE Spec2Model ----
(***************************************************************************)
(* Revault transactions (src/src/transactions.rs): the typed constructors  *)
(* of the transaction variants, the per-variant signature hash, the        *)
(* satisfier of one input and the chain verifier.                          *)
(*                                                                         *)
(* A transaction is a record [version, lock_time, input, output]; inputs   *)
(* and outputs are sequences.  The source indexes them from 0, TLA+ from   *)
(* 1: every index below is the source's (0-based) and is translated by     *)
(* Get / InBounds.                                                         *)
(***************************************************************************)
EXTENDS Integers, Sequences, FiniteSets, TLC

VARIABLES tx, args, satisfier, result, verified

vars == <<tx, args, satisfier, result, verified>>

(***************************************************************************)
(* Bounds of the model.                                                    *)
(***************************************************************************)
MaxInputs == 2
MaxOutputs == 2

(***************************************************************************)
(* Program constants.                                                      *)
(***************************************************************************)
CSV_VALUE == 42

(***************************************************************************)
(* u32 values are pairs <<high 16 bits, low 16 bits>>: u32::MAX is beyond  *)
(* the integers of the model checker.                                      *)
(***************************************************************************)
U32(n) == <<n \div 65536, n % 65536>>
U32_MAX == <<65535, 65535>>
U32_sub(a, n) ==
    IF a[2] >= n THEN <<a[1], a[2] - n>> ELSE <<a[1] - 1, a[2] + 65536 - n>>
U32_ge(a, b) == a[1] > b[1] \/ (a[1] = b[1] /\ a[2] >= b[2])

\* pub const RBF_SEQUENCE: u32 = u32::MAX - 2;
RBF_SEQUENCE == U32_sub(U32_MAX, 2)

(***************************************************************************)
(* Vec / slice access with the source's 0-based indices.                   *)
(***************************************************************************)
InBounds(s, i) == i >= 0 /\ i < Len(s)
Get(s, i) == s[i + 1]

SeqsUpTo(S, n) == UNION {[1..k -> S] : k \in 0..n}

\* Option<T>
None == [some |-> FALSE]
Some(v) == [some |-> TRUE, val |-> v]

(***************************************************************************)
(* The role-tagged values of prevouts.rs and txouts.rs: a prevout wraps an *)
(* OutPoint, a txout wraps a TxOut (value, script_pubkey).                 *)
(***************************************************************************)
\* The id of a transaction that is not one of the model's.
ExternalTxid(name) == [external |-> name]

OutPoint(txid, vout) == [txid |-> txid, vout |-> vout]
TxOut(value, script) == [value |-> value, script_pubkey |-> script]

Prevout(role, op) == [role |-> role, outpoint |-> op]
RevaultTxOut(role, txo) == [role |-> role, txout |-> txo]

outpoint(prevout) == prevout.outpoint
get_txout(txout) == txout.txout
inner_txout(txout) == txout.txout

(***************************************************************************)
(* bitcoin::TxIn and bitcoin::Transaction.  TxIn::default() has a null     *)
(* previous output, the final sequence and an empty witness.               *)
(***************************************************************************)
TxIn_default ==
    [previous_output |-> OutPoint(ExternalTxid("null"), U32_MAX),
     sequence |-> U32_MAX,
     witness |-> <<>>]

TxIn(prevout, sequence) ==
    [TxIn_default EXCEPT !.previous_output = outpoint(prevout),
                         !.sequence = sequence]

\* create_tx!([(prevout, sequence), ...], [txout, ...])
create_tx(ins, outs) ==
    [version |-> 2,
     lock_time |-> 0,
     input |-> [i \in 1..Len(ins) |-> TxIn(ins[i][1], ins[i][2])],
     output |-> [i \in 1..Len(outs) |-> get_txout(outs[i])]]

\* The newtype wrappers: the variant and its inner transaction.
Wrap(kind, inner) == [kind |-> kind, inner |-> inner]

NoTx == Wrap("None", [version |-> 0, lock_time |-> 0, input |-> <<>>, output |-> <<>>])

inner_tx(t) == t.inner

\* Mutant: the two outputs in the other order.
UnvaultTransaction_new_swapped(vault_input, unvault_txout, cpfp_txout) ==
    Wrap("Unvault",
         create_tx(<<<<vault_input[1], vault_input[2]>>>>,
                   <<cpfp_txout, unvault_txout>>))

UnvaultTransaction_new(vault_input, unvault_txout, cpfp_txout) ==
    Wrap("Unvault",
         create_tx(<<<<vault_input[1], vault_input[2]>>>>,
                   <<unvault_txout, cpfp_txout>>))

\* Mutant: the fee-bump input first.
FeeBumpedTx_feebump_first(main_input, feebump_input, txout) ==
    IF feebump_input.some
    THEN create_tx(<<<<feebump_input.val[1], feebump_input.val[2]>>,
                     <<main_input[1], main_input[2]>>>>,
                   <<txout>>)
    ELSE create_tx(<<<<main_input[1], main_input[2]>>>>, <<txout>>)

FeeBumpedTx(main_input, feebump_input, txout) ==
    IF feebump_input.some
    THEN create_tx(<<<<main_input[1], main_input[2]>>,
                     <<feebump_input.val[1], feebump_input.val[2]>>>>,
                   <<txout>>)
    ELSE create_tx(<<<<main_input[1], main_input[2]>>>>, <<txout>>)

CancelTransaction_new(unvault_input, feebump_input, vault_txout) ==
    Wrap("Cancel", FeeBumpedTx(unvault_input, feebump_input, vault_txout))

EmergencyTransaction_new(vault_input, feebump_input, emer_txout) ==
    Wrap("Emergency", FeeBumpedTx(vault_input, feebump_input, emer_txout))

UnvaultEmergencyTransaction_new(unvault_input, feebump_input, emer_txout) ==
    Wrap("UnvaultEmergency", FeeBumpedTx(unvault_input, feebump_input, emer_txout))

\* Mutant: the change outputs are left out.
SpendTransaction_new_no_change(unvault_inputs, spend_txouts) ==
    Wrap("Spend",
         [version |-> 2,
          lock_time |-> 0,
          input |-> [i \in 1..Len(unvault_inputs) |->
                        TxIn(unvault_inputs[i][1], unvault_inputs[i][2])],
          output |-> LET dest == SelectSeq(spend_txouts,
                                           LAMBDA o : o.variant = "Destination")
                     IN  [i \in 1..Len(dest) |-> get_txout(dest[i].txo)]])

SpendTransaction_new(unvault_inputs, spend_txouts) ==
    Wrap("Spend",
         [version |-> 2,
          lock_time |-> 0,
          input |-> [i \in 1..Len(unvault_inputs) |->
                        TxIn(unvault_inputs[i][1], unvault_inputs[i][2])],
          output |-> [i \in 1..Len(spend_txouts) |->
                        get_txout(spend_txouts[i].txo)]])


(***************************************************************************)
(* The transaction id: the hash of the serialization without the           *)
(* witnesses, as the tuple of what it covers.                              *)
(***************************************************************************)
\* Mutant: the id covers the witnesses too.
txid_with_witnesses(t) ==
    [version |-> t.version,
     lock_time |-> t.lock_time,
     input |-> t.input,
     output |-> t.output]

txid(t) ==
    [version |-> t.version,
     lock_time |-> t.lock_time,
     input |-> [i \in DOMAIN t.input |->
                  [previous_output |-> t.input[i].previous_output,
                   sequence |-> t.input[i].sequence]],
     output |-> t.output]

\* Mutant: the reference is to the next output.
into_prevout_next(t, vout) ==
    OutPoint(txid(inner_tx(t)), <<vout[1], vout[2] + 1>>)

into_prevout(t, vout) == OutPoint(txid(inner_tx(t)), vout)

VaultTransaction_new(t) == Wrap("Vault", t)

FeeBumpTransaction_new(t) == Wrap("FeeBump", t)

(***************************************************************************)
(* Keys and the descriptors of the spent outputs.  A descriptor is         *)
(* Wpkh(key) or Wsh(policy); a policy is an ordered list of branches, each *)
(* a list of keys that must all sign and an optional relative timelock.    *)
(* Scripts are pairs <<kind, name>>.                                       *)
(***************************************************************************)
Keys == {"manager", "stakeholder", "cosigner", "feebump"}

to_pubkeyhash(key) == <<"hash160", key>>
to_public_key(key) == key

Branch(selector, keys, timelock) ==
    [selector |-> selector, keys |-> keys, timelock |-> timelock]

vault_descriptor ==
    [type |-> "Wsh", name |-> "vault",
     branches |-> <<Branch("all", <<"manager", "stakeholder">>, None)>>]

unvault_descriptor ==
    [type |-> "Wsh", name |-> "unvault",
     branches |-> <<Branch("all", <<"manager", "stakeholder">>, None),
                    Branch("csv", <<"manager", "cosigner">>, Some(U32(CSV_VALUE)))>>]

feebump_descriptor ==
    [type |-> "Wpkh", key |-> "feebump"]

Descriptors == {vault_descriptor, unvault_descriptor, feebump_descriptor}

Descriptor_script_pubkey(descriptor) ==
    IF descriptor.type = "Wpkh"
    THEN <<"wpkh", descriptor.key>>
    ELSE <<"wsh", descriptor.name>>

Descriptor_witness_script(descriptor) == <<"ws", descriptor.name>>

Descriptor_script_code(descriptor) ==
    IF descriptor.type = "Wpkh"
    THEN <<"p2pkh", descriptor.key>>
    ELSE Descriptor_witness_script(descriptor)

DescriptorKeys(descriptor) ==
    IF descriptor.type = "Wpkh"
    THEN {descriptor.key}
    ELSE UNION {{b.keys[i] : i \in DOMAIN b.keys} :
                    b \in {descriptor.branches[n] : n \in DOMAIN descriptor.branches}}

ScriptCodes == {Descriptor_witness_script(vault_descriptor), Descriptor_witness_script(unvault_descriptor)}

(***************************************************************************)
(* The transactions the model's transactions spend: the funding (vault)    *)
(* transaction, the fee-bumping transaction and an Unvault transaction.    *)
(***************************************************************************)
vault_tx ==
    VaultTransaction_new(
        [version |-> 2,
         lock_time |-> 0,
         input |-> <<[TxIn_default EXCEPT
                        !.previous_output = OutPoint(ExternalTxid("39a8"), U32(0))]>>,
         output |-> <<TxOut(360, Descriptor_script_pubkey(vault_descriptor))>>])

feebump_tx ==
    FeeBumpTransaction_new(
        [version |-> 2,
         lock_time |-> 0,
         input |-> <<[TxIn_default EXCEPT
                        !.previous_output = OutPoint(ExternalTxid("4bb4"), U32(0))]>>,
         output |-> <<TxOut(56730, Descriptor_script_pubkey(feebump_descriptor))>>])

unvault_tx ==
    UnvaultTransaction_new(
        <<Prevout("VaultPrevout", into_prevout(vault_tx, U32(0))), U32_MAX>>,
        RevaultTxOut("UnvaultTxOut", TxOut(7000, Descriptor_script_pubkey(unvault_descriptor))),
        RevaultTxOut("CpfpTxOut", TxOut(330, <<"wsh", "cpfp">>)))

(***************************************************************************)
(* The sets the arguments of the calls are drawn from.                     *)
(***************************************************************************)
VaultPrevouts ==
    {Prevout("VaultPrevout", into_prevout(vault_tx, U32(v))) : v \in {0, 1}}
UnvaultPrevouts ==
    {Prevout("UnvaultPrevout", into_prevout(unvault_tx, U32(v))) : v \in {0, 1}}
FeeBumpPrevouts ==
    {Prevout("FeeBumpPrevout", into_prevout(feebump_tx, U32(0)))}

VaultTxOuts ==
    {RevaultTxOut("VaultTxOut", TxOut(360, Descriptor_script_pubkey(vault_descriptor)))}
UnvaultTxOuts ==
    {RevaultTxOut("UnvaultTxOut", TxOut(v, Descriptor_script_pubkey(unvault_descriptor))) :
        v \in {7000, 18}}
CpfpTxOuts ==
    {RevaultTxOut("CpfpTxOut", TxOut(330, <<"wsh", "cpfp">>))}
FeeBumpTxOuts ==
    {RevaultTxOut("FeeBumpTxOut", TxOut(56730, Descriptor_script_pubkey(feebump_descriptor)))}
EmergencyTxOuts ==
    {RevaultTxOut("EmergencyTxOut", TxOut(v, <<"raw", "">>)) : v \in {450, 18}}
ExternalTxOuts ==
    {RevaultTxOut("ExternalTxOut", TxOut(1, <<"raw", "">>))}

AllTxOuts ==
    VaultTxOuts \cup UnvaultTxOuts \cup CpfpTxOuts \cup FeeBumpTxOuts
        \cup EmergencyTxOuts \cup ExternalTxOuts

\* enum SpendTxOut { Destination(ExternalTxOut), Change(VaultTxOut) }
SpendTxOuts ==
    {[variant |-> "Destination", txo |-> t] : t \in ExternalTxOuts}
        \cup {[variant |-> "Change", txo |-> t] : t \in VaultTxOuts}

SequenceValues == {RBF_SEQUENCE, U32(CSV_VALUE), U32_MAX}

(***************************************************************************)
(* The BIP143 digest of bitcoin::util::bip143::SigHashCache, as the tuple  *)
(* of the fields it commits to (the hash is taken to be injective).  With  *)
(* ANYONECANPAY the prevouts and sequences of the other inputs are not     *)
(* committed to.  The witnesses are not part of it.                        *)
(***************************************************************************)
SigHashType(is_anyonecanpay) ==
    IF is_anyonecanpay THEN "AllPlusAnyoneCanPay" ELSE "All"

\* Mutant: the digest also commits to the witnesses of the inputs.
sighash_with_witnesses(t, input_index, previous_txout, script_code, is_anyonecanpay) ==
    LET txin == Get(t.input, input_index)
    IN  [version |-> t.version,
         hash_prevouts |-> IF is_anyonecanpay THEN <<>>
                           ELSE [i \in DOMAIN t.input |-> t.input[i].previous_output],
         hash_sequence |-> IF is_anyonecanpay THEN <<>>
                           ELSE [i \in DOMAIN t.input |-> t.input[i].sequence],
         witnesses |-> [i \in DOMAIN t.input |-> t.input[i].witness],
         outpoint |-> txin.previous_output,
         script_code |-> script_code,
         value |-> previous_txout.value,
         sequence |-> txin.sequence,
         hash_outputs |-> t.output,
         lock_time |-> t.lock_time,
         sighash_type |-> SigHashType(is_anyonecanpay)]

sighash(t, input_index, previous_txout, script_code, is_anyonecanpay) ==
    LET txin == Get(t.input, input_index)
    IN  [version |-> t.version,
         hash_prevouts |-> IF is_anyonecanpay THEN <<>>
                           ELSE [i \in DOMAIN t.input |-> t.input[i].previous_output],
         hash_sequence |-> IF is_anyonecanpay THEN <<>>
                           ELSE [i \in DOMAIN t.input |-> t.input[i].sequence],
         outpoint |-> txin.previous_output,
         script_code |-> script_code,
         value |-> previous_txout.value,
         sequence |-> txin.sequence,
         hash_outputs |-> t.output,
         lock_time |-> t.lock_time,
         sighash_type |-> SigHashType(is_anyonecanpay)]

(***************************************************************************)
(* impl_valid_prev_txouts!: the txout types a variant's signature_hash     *)
(* accepts.  Unvault and Spend take one concrete type.                     *)
(***************************************************************************)
\* Mutant: Cancel also accepts a Vault txout.
valid_prev_txouts_cancel_vault(kind) ==
    CASE kind = "Unvault" -> {"VaultTxOut"}
      [] kind = "Cancel" -> {"UnvaultTxOut", "FeeBumpTxOut", "VaultTxOut"}
      [] kind = "Emergency" -> {"VaultTxOut", "FeeBumpTxOut"}
      [] kind = "UnvaultEmergency" -> {"UnvaultTxOut", "FeeBumpTxOut"}
      [] kind = "Spend" -> {"UnvaultTxOut"}
      [] OTHER -> {}

valid_prev_txouts(kind) ==
    CASE kind = "Unvault" -> {"VaultTxOut"}
      [] kind = "Cancel" -> {"UnvaultTxOut", "FeeBumpTxOut"}
      [] kind = "Emergency" -> {"VaultTxOut", "FeeBumpTxOut"}
      [] kind = "UnvaultEmergency" -> {"UnvaultTxOut", "FeeBumpTxOut"}
      [] kind = "Spend" -> {"UnvaultTxOut"}
      [] OTHER -> {}

UnvaultTransaction_signature_hash(t, input_index, previous_txout, script_code) ==
    sighash(inner_tx(t), input_index, inner_txout(previous_txout), script_code, FALSE)

CancelTransaction_signature_hash(t, input_index, previous_txout, script_code, is_anyonecanpay) ==
    sighash(inner_tx(t), input_index, inner_txout(previous_txout), script_code,
            is_anyonecanpay)

EmergencyTransaction_signature_hash(t, input_index, previous_txout, script_code, is_anyonecanpay) ==
    sighash(inner_tx(t), input_index, inner_txout(previous_txout), script_code,
            is_anyonecanpay)

UnvaultEmergencyTransaction_signature_hash(t, input_index, previous_txout, script_code, is_anyonecanpay) ==
    sighash(inner_tx(t), input_index, inner_txout(previous_txout), script_code,
            is_anyonecanpay)

\* Mutant: the Spend hash in the anyone-can-pay mode.
SpendTransaction_signature_hash_acp(t, input_index, previous_txout, script_code) ==
    sighash(inner_tx(t), input_index, inner_txout(previous_txout), script_code, TRUE)

SpendTransaction_signature_hash(t, input_index, previous_txout, script_code) ==
    sighash(inner_tx(t), input_index, inner_txout(previous_txout), script_code, FALSE)

\* Unvault and Spend have no is_anyonecanpay parameter.
HasAnyoneCanPayParam(kind) == kind \in {"Cancel", "Emergency", "UnvaultEmergency"}

\* A call t.signature_hash(...): a previous_txout of a type the variant does
\* not accept does not type-check; an index out of bounds panics in the
\* indexing of the inputs.
signature_hash(t, input_index, previous_txout, script_code, is_anyonecanpay) ==
    IF previous_txout.role \notin valid_prev_txouts(t.kind)
    THEN [op |-> "signature_hash", outcome |-> "rejected",
          role |-> previous_txout.role]
    ELSE IF ~InBounds(inner_tx(t).input, input_index)
    THEN [op |-> "signature_hash", outcome |-> "panic",
          role |-> previous_txout.role, input_index |-> input_index]
    ELSE [op |-> "signature_hash", outcome |-> "Ok",
          role |-> previous_txout.role, input_index |-> input_index,
          previous_txout |-> previous_txout, script_code |-> script_code,
          is_anyonecanpay |-> is_anyonecanpay,
          hash |->
            CASE t.kind = "Unvault" ->
                   UnvaultTransaction_signature_hash(
                       t, input_index, previous_txout, script_code)
              [] t.kind = "Cancel" ->
                   CancelTransaction_signature_hash(
                       t, input_index, previous_txout, script_code, is_anyonecanpay)
              [] t.kind = "Emergency" ->
                   EmergencyTransaction_signature_hash(
                       t, input_index, previous_txout, script_code, is_anyonecanpay)
              [] t.kind = "UnvaultEmergency" ->
                   UnvaultEmergencyTransaction_signature_hash(
                       t, input_index, previous_txout, script_code, is_anyonecanpay)
              [] t.kind = "Spend" ->
                   SpendTransaction_signature_hash(
                       t, input_index, previous_txout, script_code)]


(***************************************************************************)
(* An ECDSA signature, as the pair of the key that made it and the digest  *)
(* it was made over: it verifies under that key and that digest only.      *)
(***************************************************************************)
Sign(key, msg) == [signer |-> key, msg |-> msg]

(***************************************************************************)
(* RevaultInputSatisfier: the two maps and the sequence of the input.      *)
(***************************************************************************)
EmptyMap == <<>>

MapInsert(m, k, v) == [x \in DOMAIN m \cup {k} |-> IF x = k THEN v ELSE m[x]]

MapGet(m, k) == IF k \in DOMAIN m THEN Some(m[k]) ELSE None

RevaultInputSatisfier_new(sequence) ==
    [sequence |-> sequence, pkhashmap |-> EmptyMap, sigmap |-> EmptyMap]

\* Mutant: the value just recorded is returned.
RevaultInputSatisfier_insert_sig_returns_new(sat, pubkey, sig, is_anyonecanpay) ==
    <<[sat EXCEPT
         !.pkhashmap = MapInsert(sat.pkhashmap, to_pubkeyhash(pubkey), pubkey),
         !.sigmap = MapInsert(sat.sigmap, pubkey,
                              <<sig, SigHashType(is_anyonecanpay)>>)],
      Some(<<sig, SigHashType(is_anyonecanpay)>>)>>

\* Mutant: the key is not recorded under its hash.
RevaultInputSatisfier_insert_sig_no_pkh(sat, pubkey, sig, is_anyonecanpay) ==
    <<[sat EXCEPT
         !.sigmap = MapInsert(sat.sigmap, pubkey,
                              <<sig, SigHashType(is_anyonecanpay)>>)],
      MapGet(sat.sigmap, pubkey)>>

\* Mutant: repeating the recorded signature of a key removes the entry.
RevaultInputSatisfier_insert_sig_toggles(sat, pubkey, sig, is_anyonecanpay) ==
    <<[sat EXCEPT
         !.pkhashmap = MapInsert(sat.pkhashmap, to_pubkeyhash(pubkey), pubkey),
         !.sigmap = IF MapGet(sat.sigmap, pubkey)
                         = Some(<<sig, SigHashType(is_anyonecanpay)>>)
                    THEN [x \in DOMAIN sat.sigmap \ {pubkey} |-> sat.sigmap[x]]
                    ELSE MapInsert(sat.sigmap, pubkey,
                                   <<sig, SigHashType(is_anyonecanpay)>>)],
      MapGet(sat.sigmap, pubkey)>>

\* Mutant: recording a signature drops those of the other keys.
RevaultInputSatisfier_insert_sig_forgets(sat, pubkey, sig, is_anyonecanpay) ==
    <<[sat EXCEPT
         !.pkhashmap = MapInsert(EmptyMap, to_pubkeyhash(pubkey), pubkey),
         !.sigmap = MapInsert(EmptyMap, pubkey,
                              <<sig, SigHashType(is_anyonecanpay)>>)],
      MapGet(sat.sigmap, pubkey)>>

\* Returns the pair <<satisfier after the call, returned value>>.
RevaultInputSatisfier_insert_sig(sat, pubkey, sig, is_anyonecanpay) ==
    <<[sat EXCEPT
         !.pkhashmap = MapInsert(sat.pkhashmap, to_pubkeyhash(pubkey), pubkey),
         !.sigmap = MapInsert(sat.sigmap, pubkey,
                              <<sig, SigHashType(is_anyonecanpay)>>)],
      MapGet(sat.sigmap, pubkey)>>

lookup_sig(sat, key) == MapGet(sat.sigmap, key)

lookup_pkh_sig(sat, keyhash) ==
    IF MapGet(sat.pkhashmap, keyhash).some
    THEN LET key == MapGet(sat.pkhashmap, keyhash).val
         IN  IF lookup_sig(sat, key).some
             THEN Some(<<to_public_key(key), lookup_sig(sat, key).val>>)
             ELSE None
    ELSE None

\* Mutant: a sequence at or above the queried value passes.
check_after_at_least(sat, csv) == U32_ge(sat.sequence, csv)

check_after(sat, csv) == sat.sequence = csv

(***************************************************************************)
(* Descriptor::satisfy(txin, satisfier): the witness of the first branch   *)
(* the satisfier's answers satisfy, or an error.                           *)
(***************************************************************************)
BranchSatisfied(b, sat) ==
    /\ \A i \in DOMAIN b.keys : lookup_sig(sat, b.keys[i]).some
    /\ b.timelock.some => check_after(sat, b.timelock.val)

\* A witness is a sequence of items: signatures with their type, a public
\* key, the selector of the branch taken, the witness script.
SigItem(bitcoinsig) == [sig |-> bitcoinsig[1], sighash_type |-> bitcoinsig[2]]

BranchWitness(b, sat) ==
    [i \in DOMAIN b.keys |-> SigItem(lookup_sig(sat, b.keys[i]).val)]
        \o <<[select |-> b.selector]>>

Descriptor_satisfy(descriptor, sat) ==
    IF descriptor.type = "Wpkh"
    THEN IF lookup_sig(sat, descriptor.key).some
         THEN [ok |-> TRUE,
               witness |-> <<SigItem(lookup_sig(sat, descriptor.key).val),
                             [pubkey |-> to_public_key(descriptor.key)]>>]
         ELSE [ok |-> FALSE, err |-> "missing signature"]
    ELSE LET sats == {n \in DOMAIN descriptor.branches :
                         BranchSatisfied(descriptor.branches[n], sat)}
         IN  IF sats = {}
             THEN [ok |-> FALSE, err |-> "could not satisfy"]
             ELSE LET n == CHOOSE m \in sats : \A o \in sats : m <= o
                  IN  [ok |-> TRUE,
                       witness |-> BranchWitness(descriptor.branches[n], sat)
                                       \o <<[script |-> Descriptor_witness_script(descriptor)]>>]

(***************************************************************************)
(* RevaultSatisfier: the exclusive borrow of one input of the transaction, *)
(* the descriptor and the input satisfier.                                 *)
(***************************************************************************)
NoSat == [live |-> FALSE]

\* Mutant: the last input is taken to be out of bounds.
RevaultSatisfier_new_off_by_one(transaction, input_index, descriptor) ==
    IF InBounds(inner_tx(transaction).input, input_index + 1)
    THEN <<[live |-> TRUE,
            txin |-> input_index,
            descriptor |-> descriptor,
            satisfier |-> RevaultInputSatisfier_new(
                              Get(inner_tx(transaction).input, input_index).sequence)],
           "Ok">>
    ELSE <<NoSat, "InputSatisfaction">>

\* Returns <<the satisfier (NoSat on error), the outcome>>.
RevaultSatisfier_new(transaction, input_index, descriptor) ==
    IF InBounds(inner_tx(transaction).input, input_index)
    THEN <<[live |-> TRUE,
            txin |-> input_index,
            descriptor |-> descriptor,
            satisfier |-> RevaultInputSatisfier_new(
                              Get(inner_tx(transaction).input, input_index).sequence)],
           "Ok">>
    ELSE <<NoSat, "InputSatisfaction">>


\* The text of the error satisfy returns for the descriptor's error e.
InputSatisfactionMessage(e) == <<"Script satisfaction error: ", e, ".">>

\* Mutant: satisfying also sets the lock-time.
RevaultSatisfier_satisfy_sets_lock_time(transaction, rsat) ==
    LET res == Descriptor_satisfy(rsat.descriptor, rsat.satisfier)
    IN  IF res.ok
        THEN <<[transaction EXCEPT !.inner.input[rsat.txin + 1].witness = res.witness,
                                   !.inner.lock_time = 1],
               "Ok", <<>>>>
        ELSE <<transaction, "InputSatisfaction", InputSatisfactionMessage(res.err)>>

\* Mutant: the witness is appended to the one the input has.
RevaultSatisfier_satisfy_appends(transaction, rsat) ==
    LET res == Descriptor_satisfy(rsat.descriptor, rsat.satisfier)
    IN  IF res.ok
        THEN <<[transaction EXCEPT !.inner.input[rsat.txin + 1].witness =
                                       @ \o res.witness],
               "Ok", <<>>>>
        ELSE <<transaction, "InputSatisfaction", InputSatisfactionMessage(res.err)>>

\* Mutant: the descriptor's error is dropped.
RevaultSatisfier_satisfy_swallows_error(transaction, rsat) ==
    LET res == Descriptor_satisfy(rsat.descriptor, rsat.satisfier)
    IN  IF res.ok
        THEN <<[transaction EXCEPT !.inner.input[rsat.txin + 1].witness = res.witness],
               "Ok", <<>>>>
        ELSE <<transaction, "Ok", <<>>>>

\* Mutant: on error the borrowed input's witness is emptied.
RevaultSatisfier_satisfy_clears_on_error(transaction, rsat) ==
    LET res == Descriptor_satisfy(rsat.descriptor, rsat.satisfier)
    IN  IF res.ok
        THEN <<[transaction EXCEPT !.inner.input[rsat.txin + 1].witness = res.witness],
               "Ok", <<>>>>
        ELSE <<[transaction EXCEPT !.inner.input[rsat.txin + 1].witness = <<>>],
               "InputSatisfaction", InputSatisfactionMessage(res.err)>>

\* satisfy(): on success the borrowed input's witness is replaced.
\* Returns <<transaction after the call, outcome, text of the error>>.
RevaultSatisfier_satisfy(transaction, rsat) ==
    LET res == Descriptor_satisfy(rsat.descriptor, rsat.satisfier)
    IN  IF res.ok
        THEN <<[transaction EXCEPT !.inner.input[rsat.txin + 1].witness = res.witness],
               "Ok", <<>>>>
        ELSE <<transaction, "InputSatisfaction", InputSatisfactionMessage(res.err)>>

(***************************************************************************)
(* bitcoinconsensus::verify(script_pubkey, amount, serialized tx, index):  *)
(* the segwit v0 evaluation of the input's witness against the spent       *)
(* output.  The witness script of a Wsh output is the compilation of the   *)
(* descriptor's policy: the selected branch needs a valid signature for    *)
(* each of its keys, and its relative timelock to pass BIP112.             *)
(***************************************************************************)
CheckSig(item, key, t, index, amount, script) ==
    /\ "sig" \in DOMAIN item
    /\ item.sig = Sign(key, sighash(t, index, [value |-> amount], script,
                                    item.sighash_type = SigHashType(TRUE)))

\* BIP112: OP_CHECKSEQUENCEVERIFY of the value n against the input's sequence.
CheckSequenceVerify(t, index, n) ==
    LET sequence == Get(t.input, index).sequence
    IN  \/ n[1] >= 32768
        \/ /\ t.version >= 2
           /\ sequence[1] < 32768
           /\ (sequence[1] \div 64) % 2 = (n[1] \div 64) % 2
           /\ \/ sequence[1] % 64 > n[1] % 64
              \/ sequence[1] % 64 = n[1] % 64 /\ sequence[2] >= n[2]

CheckBranch(b, items, t, index, amount, script) ==
    /\ Len(items) = Len(b.keys)
    /\ \A i \in DOMAIN b.keys : CheckSig(items[i], b.keys[i], t, index, amount, script)
    /\ b.timelock.some => CheckSequenceVerify(t, index, b.timelock.val)

consensus_verify(spk, amount, t, index) ==
    LET witness == Get(t.input, index).witness
    IN  IF spk[1] = "wpkh"
        THEN /\ Len(witness) = 2
             /\ witness[2] = [pubkey |-> spk[2]]
             /\ CheckSig(witness[1], spk[2], t, index, amount, <<"p2pkh", spk[2]>>)
        ELSE /\ spk[1] = "wsh"
             /\ Len(witness) >= 2
             /\ \E d \in {x \in Descriptors : x.type = "Wsh"} :
                  /\ Descriptor_script_pubkey(d) = spk
                  /\ witness[Len(witness)] = [script |-> Descriptor_witness_script(d)]
                  /\ \E n \in DOMAIN d.branches :
                       /\ witness[Len(witness) - 1] = [select |-> d.branches[n].selector]
                       /\ CheckBranch(d.branches[n],
                                      SubSeq(witness, 1, Len(witness) - 2),
                                      t, index, amount, Descriptor_witness_script(d))

(***************************************************************************)
(* verify_revault_transaction                                              *)
(***************************************************************************)
\* The first transaction of the list with the prevout's txid decides.
get_prev_script_and_value(prevout, transactions) ==
    LET found == {n \in DOMAIN transactions :
                     txid(inner_tx(transactions[n])) = prevout.txid}
    IN  IF found = {}
        THEN None
        ELSE LET n == CHOOSE m \in found : \A o \in found : m <= o
                 output == inner_tx(transactions[n]).output
             IN  IF prevout.vout[1] = 0 /\ InBounds(output, prevout.vout[2])
                 THEN Some(<<Get(output, prevout.vout[2]).script_pubkey,
                             Get(output, prevout.vout[2]).value>>)
                 ELSE None

\* bitcoinconsensus::verify: "Ok" or the code of the error.
bitcoinconsensus_verify(spk, amount, t, index) ==
    IF ~InBounds(t.input, index)
    THEN "ERR_TX_INDEX"
    ELSE IF consensus_verify(spk, amount, t, index)
         THEN "Ok"
         ELSE "ERR_SCRIPT"

\* Mutant: the oracle is given the index of the next input.
verify_input_next_index(revault_tx, previous_transactions, index) ==
    LET txin == Get(inner_tx(revault_tx).input, index)
        prev == get_prev_script_and_value(txin.previous_output, previous_transactions)
    IN  IF ~prev.some
        THEN [ok |-> FALSE, err |-> <<"Unknown txout refered by txin ", txin>>]
        ELSE LET code == bitcoinconsensus_verify(prev.val[1], prev.val[2],
                                                 inner_tx(revault_tx), index + 1)
             IN  IF code = "Ok"
                 THEN [ok |-> TRUE]
                 ELSE [ok |-> FALSE, err |-> <<"Bitcoinconsensus error: ", code>>]

\* The body of the loop for one input: Ok or the error returned.
verify_input(revault_tx, previous_transactions, index) ==
    LET txin == Get(inner_tx(revault_tx).input, index)
        prev == get_prev_script_and_value(txin.previous_output, previous_transactions)
    IN  IF ~prev.some
        THEN [ok |-> FALSE, err |-> <<"Unknown txout refered by txin ", txin>>]
        ELSE LET code == bitcoinconsensus_verify(prev.val[1], prev.val[2],
                                                 inner_tx(revault_tx), index)
             IN  IF code = "Ok"
                 THEN [ok |-> TRUE]
                 ELSE [ok |-> FALSE, err |-> <<"Bitcoinconsensus error: ", code>>]

\* Mutant: the loop goes on after an error and the last one is returned.
verify_revault_transaction_last_error(revault_tx, previous_transactions) ==
    LET input == inner_tx(revault_tx).input
        failed == {i \in 0..(Len(input) - 1) :
                      ~verify_input(revault_tx, previous_transactions, i).ok}
    IN  IF failed = {}
        THEN [ok |-> TRUE]
        ELSE LET i == CHOOSE m \in failed : \A o \in failed : m >= o
             IN  verify_input(revault_tx, previous_transactions, i)

\* Mutant: an unresolved previous output is skipped.
verify_revault_transaction_skips_unknown(revault_tx, previous_transactions) ==
    LET input == inner_tx(revault_tx).input
        failed == {i \in 0..(Len(input) - 1) :
                      /\ ~verify_input(revault_tx, previous_transactions, i).ok
                      /\ verify_input(revault_tx, previous_transactions, i).err[1]
                           = "Bitcoinconsensus error: "}
    IN  IF failed = {}
        THEN [ok |-> TRUE]
        ELSE LET i == CHOOSE m \in failed : \A o \in failed : m <= o
             IN  verify_input(revault_tx, previous_transactions, i)

\* Mutant: the loop goes on after an error; the first error is returned.
RECURSIVE verify_inputs_goes_on(_, _, _, _)
verify_inputs_goes_on(revault_tx, previous_transactions, index, invoked) ==
    IF ~InBounds(inner_tx(revault_tx).input, index)
    THEN [res |-> [ok |-> TRUE], invoked |-> invoked]
    ELSE LET txin == Get(inner_tx(revault_tx).input, index)
             prev == get_prev_script_and_value(txin.previous_output,
                                               previous_transactions)
             r == verify_input(revault_tx, previous_transactions, index)
             rest == verify_inputs_goes_on(
                         revault_tx, previous_transactions, index + 1,
                         IF prev.some THEN Append(invoked, index) ELSE invoked)
         IN  [res |-> IF r.ok THEN rest.res ELSE r, invoked |-> rest.invoked]

\* The loop over the inputs, from input index on: the inputs are checked in
\* order and the first error is returned.  invoked lists the inputs the
\* oracle has been invoked for so far; the result is the value returned
\* (res) with the inputs the oracle was invoked for by the end.
RECURSIVE verify_inputs(_, _, _, _)
verify_inputs(revault_tx, previous_transactions, index, invoked) ==
    IF ~InBounds(inner_tx(revault_tx).input, index)
    THEN [res |-> [ok |-> TRUE], invoked |-> invoked]
    ELSE LET txin == Get(inner_tx(revault_tx).input, index)
             prev == get_prev_script_and_value(txin.previous_output,
                                               previous_transactions)
             r == verify_input(revault_tx, previous_transactions, index)
         IN  IF ~prev.some
             THEN [res |-> r, invoked |-> invoked]
             ELSE IF ~r.ok
                  THEN [res |-> r, invoked |-> Append(invoked, index)]
                  ELSE verify_inputs(revault_tx, previous_transactions,
                                     index + 1, Append(invoked, index))

verify_revault_transaction(revault_tx, previous_transactions) ==
    verify_inputs(revault_tx, previous_transactions, 0, <<>>).res

(***************************************************************************)
(* The state: the transaction under work (tx), the arguments it was        *)
(* constructed from (args), the satisfier borrowing one of its inputs, if  *)
(* any, the outcome of the last call (result), and whether                 *)
(* verify_revault_transaction has returned Ok for the transaction under    *)
(* work (verified).                                                        *)
(*                                                                         *)
(* The actions take the sets their arguments are drawn from.  One          *)
(* transaction is under work at a time: the next one is constructed once   *)
(* it is dropped.                                                          *)
(***************************************************************************)
NoArgs == [main |-> <<>>, feebump |-> None, txouts |-> <<>>]

Init ==
    /\ tx = NoTx
    /\ args = NoArgs
    /\ satisfier = NoSat
    /\ result = [op |-> "init"]
    /\ verified = FALSE

FeeBumpInputs(S) == {None} \cup {Some(<<p, s>>) : p \in FeeBumpPrevouts, s \in S}

NewUnvault(P, S, U) ==
    /\ tx.kind = "None"
    /\ \E p \in P, s \in S, u \in U, c \in CpfpTxOuts :
         /\ tx' = UnvaultTransaction_new(<<p, s>>, u, c)
         /\ args' = [main |-> <<<<p, s>>>>, feebump |-> None, txouts |-> <<u, c>>]
    /\ result' = [op |-> "new"]
    /\ UNCHANGED <<satisfier, verified>>

NewCancel(P, S, F, V) ==
    /\ tx.kind = "None"
    /\ \E p \in P, s \in S, f \in F, v \in V :
         /\ tx' = CancelTransaction_new(<<p, s>>, f, v)
         /\ args' = [main |-> <<<<p, s>>>>, feebump |-> f, txouts |-> <<v>>]
    /\ result' = [op |-> "new"]
    /\ UNCHANGED <<satisfier, verified>>

NewEmergency(P, S, F, E) ==
    /\ tx.kind = "None"
    /\ \E p \in P, s \in S, f \in F, e \in E :
         /\ tx' = EmergencyTransaction_new(<<p, s>>, f, e)
         /\ args' = [main |-> <<<<p, s>>>>, feebump |-> f, txouts |-> <<e>>]
    /\ result' = [op |-> "new"]
    /\ UNCHANGED <<satisfier, verified>>

NewUnvaultEmergency(P, S, F, E) ==
    /\ tx.kind = "None"
    /\ \E p \in P, s \in S, f \in F, e \in E :
         /\ tx' = UnvaultEmergencyTransaction_new(<<p, s>>, f, e)
         /\ args' = [main |-> <<<<p, s>>>>, feebump |-> f, txouts |-> <<e>>]
    /\ result' = [op |-> "new"]
    /\ UNCHANGED <<satisfier, verified>>

NewSpend(I, O) ==
    /\ tx.kind = "None"
    /\ \E ins \in SeqsUpTo(I, MaxInputs), outs \in SeqsUpTo(O, MaxOutputs) :
         /\ tx' = SpendTransaction_new(ins, outs)
         /\ args' = [main |-> ins, feebump |-> None, txouts |-> outs]
    /\ result' = [op |-> "new"]
    /\ UNCHANGED <<satisfier, verified>>

\* The live satisfier holds the exclusive borrow of the transaction: no call
\* on the transaction itself until it is dropped.
SignatureHash(T, C) ==
    /\ tx.kind # "None"
    /\ ~satisfier.live
    /\ \E input_index \in 0..MaxInputs, previous_txout \in T,
          script_code \in C, is_anyonecanpay \in BOOLEAN :
         /\ ~HasAnyoneCanPayParam(tx.kind) => ~is_anyonecanpay
         /\ result' = signature_hash(tx, input_index, previous_txout,
                                     script_code, is_anyonecanpay)
    /\ UNCHANGED <<tx, args, satisfier, verified>>

SatisfierNew(D) ==
    /\ tx.kind # "None"
    /\ ~satisfier.live
    /\ \E input_index \in 0..MaxInputs, descriptor \in D :
         LET r == RevaultSatisfier_new(tx, input_index, descriptor)
         IN  /\ satisfier' = r[1]
             /\ result' = [op |-> "RevaultSatisfier::new", outcome |-> r[2],
                           input_index |-> input_index]
    /\ UNCHANGED <<tx, args, verified>>

\* A is the set of the calls' arguments <<pubkey, sig, is_anyonecanpay>>.
InsertSig(A) ==
    /\ satisfier.live
    /\ \E a \in A :
         LET r == RevaultInputSatisfier_insert_sig(satisfier.satisfier, a[1], a[2], a[3])
         IN  /\ satisfier' = [satisfier EXCEPT !.satisfier = r[1]]
             /\ result' = [op |-> "insert_sig", call |-> a, returned |-> r[2]]
    /\ UNCHANGED <<tx, args, verified>>

Satisfy ==
    /\ satisfier.live
    /\ LET r == RevaultSatisfier_satisfy(tx, satisfier)
       IN  /\ tx' = r[1]
           /\ result' = [op |-> "satisfy", outcome |-> r[2], message |-> r[3]]
    /\ UNCHANGED <<args, satisfier, verified>>

DropSatisfier ==
    /\ satisfier.live
    /\ satisfier' = NoSat
    /\ result' = [op |-> "drop"]
    /\ UNCHANGED <<tx, args, verified>>

\* previous_transactions is a slice of references to one concrete type.
Verify(PT) ==
    /\ tx.kind # "None"
    /\ ~satisfier.live
    /\ \E previous_transactions \in PT :
         result' = [op |-> "verify", previous_transactions |-> previous_transactions,
                    oracle |-> verify_inputs(tx, previous_transactions, 0, <<>>).invoked]
                      @@ verify_revault_transaction(tx, previous_transactions)
    /\ verified' = (verified \/ result'.ok)
    /\ UNCHANGED <<tx, args, satisfier>>

\* The transaction goes out of scope; another one can be constructed.
DropTransaction ==
    /\ tx.kind # "None"
    /\ ~satisfier.live
    /\ tx' = NoTx
    /\ args' = NoArgs
    /\ result' = [op |-> "drop"]
    /\ verified' = FALSE
    /\ UNCHANGED satisfier

(***************************************************************************)
(* Spec: construction of every variant from the full argument sets, the    *)
(* signature hashes and the creation of satisfiers.                        *)
(***************************************************************************)
Next ==
    \/ NewUnvault(VaultPrevouts, SequenceValues, UnvaultTxOuts)
    \/ NewCancel(UnvaultPrevouts, SequenceValues, FeeBumpInputs(SequenceValues),
                 VaultTxOuts)
    \/ NewEmergency(VaultPrevouts, SequenceValues, FeeBumpInputs(SequenceValues),
                    EmergencyTxOuts)
    \/ NewUnvaultEmergency(UnvaultPrevouts, SequenceValues,
                           FeeBumpInputs(SequenceValues), EmergencyTxOuts)
    \/ NewSpend(UnvaultPrevouts \X SequenceValues, SpendTxOuts)
    \/ SignatureHash(AllTxOuts, ScriptCodes)
    \/ SatisfierNew(Descriptors)
    \/ DropSatisfier
    \/ DropTransaction

Spec == Init /\ [][Next]_vars

(***************************************************************************)
(* SpecSat: the life of a transaction spending the outputs of vault_tx,    *)
(* unvault_tx and feebump_tx: construction, signature hashes, signatures   *)
(* made over the borrowed input's digest by the keys of the descriptor,    *)
(* satisfaction and verification.                                          *)
(***************************************************************************)
ChainTransactions == <<vault_tx, feebump_tx, unvault_tx>>

SatVaultPrevouts == {Prevout("VaultPrevout", into_prevout(vault_tx, U32(0)))}
SatUnvaultPrevouts == {Prevout("UnvaultPrevout", into_prevout(unvault_tx, U32(0)))}
SatFeeBumpInputs == {None} \cup {Some(<<p, RBF_SEQUENCE>>) : p \in FeeBumpPrevouts}
SatUnvaultTxOuts == {RevaultTxOut("UnvaultTxOut", inner_tx(unvault_tx).output[1])}
SatEmergencyTxOuts == {RevaultTxOut("EmergencyTxOut", TxOut(450, <<"raw", "">>))}
SatSpendTxOuts == {[variant |-> "Destination", txo |-> t] : t \in ExternalTxOuts}
SatPrevTxOuts == VaultTxOuts \cup SatUnvaultTxOuts \cup FeeBumpTxOuts

\* The value of the output the borrowed input spends.
SpentValue(prevout) ==
    LET prev == get_prev_script_and_value(prevout, ChainTransactions)
    IN  IF prev.some THEN prev.val[2] ELSE 0

\* The signature of a key over the digest of the borrowed input.
HonestSignature(pubkey, is_anyonecanpay) ==
    Sign(pubkey,
         sighash(inner_tx(tx), satisfier.txin,
                 [value |-> SpentValue(Get(inner_tx(tx).input,
                                           satisfier.txin).previous_output)],
                 Descriptor_script_code(satisfier.descriptor),
                 is_anyonecanpay))

\* Each key of the descriptor signs the digest, in either mode.
HonestInsertions ==
    {<<pubkey, HonestSignature(pubkey, is_anyonecanpay), is_anyonecanpay>> :
        pubkey \in DescriptorKeys(satisfier.descriptor), is_anyonecanpay \in BOOLEAN}

\* The descriptors of the outputs the transaction's inputs spend.
SpentDescriptors ==
    {d \in Descriptors :
        \E i \in DOMAIN inner_tx(tx).input :
            LET prev == get_prev_script_and_value(
                            inner_tx(tx).input[i].previous_output, ChainTransactions)
            IN  prev.some /\ prev.val[1] = Descriptor_script_pubkey(d)}

PreviousTransactions ==
    SeqsUpTo({vault_tx}, 1) \cup SeqsUpTo({unvault_tx}, 1) \cup SeqsUpTo({feebump_tx}, 1)

NextSat ==
    \/ NewUnvault(VaultPrevouts, {U32_MAX}, SatUnvaultTxOuts)
    \/ NewCancel(SatUnvaultPrevouts, {RBF_SEQUENCE}, SatFeeBumpInputs, VaultTxOuts)
    \/ NewEmergency(SatVaultPrevouts, {RBF_SEQUENCE}, SatFeeBumpInputs,
                    SatEmergencyTxOuts)
    \/ NewUnvaultEmergency(SatUnvaultPrevouts, {RBF_SEQUENCE}, SatFeeBumpInputs,
                           SatEmergencyTxOuts)
    \/ NewSpend(SatUnvaultPrevouts \X {U32(CSV_VALUE)}, SatSpendTxOuts)
    \/ SignatureHash(SatPrevTxOuts, ScriptCodes)
    \/ SatisfierNew(SpentDescriptors)
    \/ InsertSig(HonestInsertions)
    \/ Satisfy
    \/ DropSatisfier
    \/ Verify(PreviousTransactions)
    \/ DropTransaction

SpecSat == Init /\ [][NextSat]_vars


(***************************************************************************)
(* SpecSig: the signatures of one input.  insert_sig checks nothing: any   *)
(* signature is recorded for any key, in either mode, whether the          *)
(* descriptor knows the key or not.                                        *)
(***************************************************************************)
SigKeys == {"manager", "stakeholder", "cosigner"}

AnySignatures == {Sign(k, [digest |-> "d"]) : k \in {"manager", "stakeholder"}}

AnyInsertions == SigKeys \X AnySignatures \X BOOLEAN

NextSig ==
    \/ NewUnvault(SatVaultPrevouts, {U32_MAX}, SatUnvaultTxOuts)
    \/ SatisfierNew({vault_descriptor})
    \/ InsertSig(AnyInsertions)
    \/ Satisfy
    \/ DropSatisfier
    \/ DropTransaction

SpecSig == Init /\ [][NextSig]_vars

(***************************************************************************)
(* SpecCsv: Spend transactions whose inputs carry the timelock of the      *)
(* unvault descriptor, one less or one more, satisfied with the unvault    *)
(* descriptor.                                                             *)
(***************************************************************************)
CsvSequences == {U32(CSV_VALUE - 1), U32(CSV_VALUE), U32(CSV_VALUE + 1)}

\* The signatures of a Spend transaction are made in the ALL mode.
SpendInsertions == {a \in HonestInsertions : ~a[3]}

NextCsv ==
    \/ NewSpend(SatUnvaultPrevouts \X CsvSequences, SatSpendTxOuts)
    \/ SatisfierNew({unvault_descriptor})
    \/ InsertSig(SpendInsertions)
    \/ Satisfy
    \/ DropSatisfier
    \/ DropTransaction

SpecCsv == Init /\ [][NextCsv]_vars

(***************************************************************************)
(* Properties of the constructors.                                         *)
(***************************************************************************)
Inputs == inner_tx(tx).input
Outputs == inner_tx(tx).output

FeeBumpedKinds == {"Cancel", "Emergency", "UnvaultEmergency"}

\* C1: every input of a constructed Cancel, Emergency or UnvaultEmergency
\* transaction, the fee-bump input included, has sequence RBF_SEQUENCE,
\* whatever the arguments of the constructor.
C1_SequenceIsRbf ==
    tx.kind \in FeeBumpedKinds =>
        \A i \in DOMAIN Inputs : Inputs[i].sequence = RBF_SEQUENCE

\* C2: all the inputs of a constructed Spend transaction carry one and the
\* same sequence number.
C2_SpendSequenceUniform ==
    tx.kind = "Spend" =>
        \A i, j \in DOMAIN Inputs : Inputs[i].sequence = Inputs[j].sequence

C4_UnvaultShape ==
    tx.kind = "Unvault" =>
        /\ Len(Inputs) = 1
        /\ args.main[1][1].role = "VaultPrevout"
        /\ Get(Inputs, 0).previous_output = outpoint(args.main[1][1])
        /\ Get(Inputs, 0).sequence = args.main[1][2]
        /\ Len(Outputs) = 2
        /\ args.txouts[1].role = "UnvaultTxOut"
        /\ args.txouts[2].role = "CpfpTxOut"
        /\ Get(Outputs, 0) = get_txout(args.txouts[1])
        /\ Get(Outputs, 1) = get_txout(args.txouts[2])

C4_Witness ==
    /\ tx.kind = "Unvault"
    /\ args.main[1][2] = U32(CSV_VALUE)
    /\ args.main[1][1].outpoint.vout = U32(1)
    /\ Get(Outputs, 0).value = 7000
    /\ Get(Outputs, 1).value = 330

\* C5: with a fee-bump input a Cancel, Emergency or UnvaultEmergency
\* transaction has two inputs, the main one at index 0 and the fee-bump one
\* last, at index 1; without it, the main input alone; either way the one
\* output given.
C5_FeeBumpLast ==
    tx.kind \in FeeBumpedKinds =>
        /\ Get(Inputs, 0).previous_output = outpoint(args.main[1][1])
        /\ IF args.feebump.some
           THEN /\ Len(Inputs) = 2
                /\ Get(Inputs, 1).previous_output = outpoint(args.feebump.val[1])
                /\ args.feebump.val[1].role = "FeeBumpPrevout"
           ELSE Len(Inputs) = 1
        /\ Outputs = <<get_txout(args.txouts[1])>>

C5_Witness ==
    /\ tx.kind = "UnvaultEmergency"
    /\ args.feebump.some
    /\ Len(Inputs) = 2

(***************************************************************************)
(* Properties of the signature hashes.                                     *)
(***************************************************************************)
\* The (variant, previous output role) pairs of the pairing table.
LegalPairs ==
    {<<"Unvault", "VaultTxOut">>,
     <<"Cancel", "UnvaultTxOut">>, <<"Cancel", "FeeBumpTxOut">>,
     <<"Emergency", "VaultTxOut">>, <<"Emergency", "FeeBumpTxOut">>,
     <<"UnvaultEmergency", "UnvaultTxOut">>, <<"UnvaultEmergency", "FeeBumpTxOut">>,
     <<"Spend", "UnvaultTxOut">>}

C8_SpendUnvaultSignAll ==
    (result.op = "signature_hash" /\ result.outcome = "Ok"
        /\ tx.kind \in {"Spend", "Unvault"}) =>
        /\ result.hash = sighash(inner_tx(tx), result.input_index,
                                 inner_txout(result.previous_txout),
                                 result.script_code, FALSE)
        /\ result.hash.sighash_type = "All"
        /\ \A i \in 0..(Len(Inputs) - 1), t \in AllTxOuts, c \in ScriptCodes :
             result.hash # sighash(inner_tx(tx), i, inner_txout(t), c, TRUE)

C8_Witness ==
    /\ result.op = "signature_hash"
    /\ result.outcome = "Ok"
    /\ tx.kind = "Spend"
    /\ Len(Inputs) = 2
    /\ result.input_index = 1

(***************************************************************************)
(* Properties of the creation of a satisfier.                              *)
(***************************************************************************)
\* C10: RevaultSatisfier::new fails, with InputSatisfaction, exactly when the
\* index is at or beyond the number of inputs; it has no other outcome, and
\* on error the transaction is unchanged.
C10_SatisfierNewBounds ==
    [][result'.op = "RevaultSatisfier::new" =>
          /\ result'.outcome \in {"Ok", "InputSatisfaction"}
          /\ result'.outcome = "InputSatisfaction"
                <=> result'.input_index >= Len(Inputs)
          /\ result'.outcome = "InputSatisfaction" => (tx' = tx /\ ~satisfier'.live)
          /\ result'.outcome = "Ok" => satisfier'.live]_vars

C10_Witness ==
    /\ result.op = "RevaultSatisfier::new"
    /\ result.outcome = "InputSatisfaction"
    /\ result.input_index = Len(Inputs)
    /\ tx.kind = "Cancel"

(***************************************************************************)
(* Properties over the whole life of a transaction (SpecSat).              *)
(***************************************************************************)
TransactionKinds == {"Unvault", "Cancel", "Emergency", "UnvaultEmergency", "Spend"}

Satisfied(i) == Get(Inputs, i).witness # <<>>

\* C6: a transaction built by one of the five constructors has version 2
\* and lock-time 0, and keeps them through signature_hash, insert_sig,
\* satisfy and verify.
C6_VersionAndLockTime ==
    tx.kind \in TransactionKinds =>
        /\ inner_tx(tx).version = 2
        /\ inner_tx(tx).lock_time = 0

\* A satisfied transaction that has just been verified successfully.
C6_Witness ==
    /\ tx.kind = "Spend"
    /\ Len(Inputs) = 1
    /\ Satisfied(0)
    /\ result.op = "verify"
    /\ result.ok
    /\ inner_tx(tx).version = 2
    /\ inner_tx(tx).lock_time = 0

\* The transaction value that differs from t in the witnesses only: none.
WithoutWitnesses(t) ==
    [t EXCEPT !.inner.input =
        [i \in DOMAIN t.inner.input |-> [t.inner.input[i] EXCEPT !.witness = <<>>]]]

\* C9: signature_hash does not depend on the witnesses: on the transaction
\* as it stands, whatever inputs have been satisfied, it returns for every
\* (index, previous output, script code, mode) what it returns on the same
\* transaction without any witness, and the digest last returned is that one.
C9_SighashIgnoresWitnesses ==
    tx.kind \in TransactionKinds =>
        /\ \A input_index \in 0..(Len(Inputs) - 1), previous_txout \in SatPrevTxOuts,
              script_code \in ScriptCodes, is_anyonecanpay \in BOOLEAN :
             signature_hash(tx, input_index, previous_txout, script_code,
                            is_anyonecanpay)
               = signature_hash(WithoutWitnesses(tx), input_index, previous_txout,
                                script_code, is_anyonecanpay)
        /\ (result.op = "signature_hash" /\ result.outcome = "Ok") =>
             result = signature_hash(WithoutWitnesses(tx), result.input_index,
                                     result.previous_txout, result.script_code,
                                     result.is_anyonecanpay)

\* The digest of input 0 has been taken after input 1 was satisfied.
C9_Witness ==
    /\ tx.kind = "Cancel"
    /\ Len(Inputs) = 2
    /\ ~Satisfied(0)
    /\ Satisfied(1)
    /\ result.op = "signature_hash"
    /\ result.outcome = "Ok"
    /\ result.input_index = 0
    /\ result.is_anyonecanpay

(***************************************************************************)
(* Properties of the signatures of an input (SpecSig).                     *)
(***************************************************************************)
\* The (signature, mode) an insert_sig call records.
Recorded(call) == <<call[2], SigHashType(call[3])>>

\* C11: insert_sig(pubkey, sig, anyone_can_pay) returns what was recorded
\* for pubkey before the call, or nothing; after it the recorded value for
\* pubkey is (sig, ALL|ANYONECANPAY if anyone_can_pay else ALL), and the
\* entries of the other keys are as they were.
C11_InsertSigLastWins ==
    [][result'.op = "insert_sig" =>
         LET pubkey == result'.call[1]
             before == satisfier.satisfier
             after == satisfier'.satisfier
         IN  /\ result'.returned = lookup_sig(before, pubkey)
             /\ lookup_sig(after, pubkey) = Some(Recorded(result'.call))
             /\ Recorded(result'.call)[2] =
                  (IF result'.call[3] THEN "AllPlusAnyoneCanPay" ELSE "All")
             /\ \A other \in Keys \ {pubkey} :
                  lookup_sig(after, other) = lookup_sig(before, other)]_vars

\* A signature of a key has been overwritten by another one, in another
\* mode, while another key has its own.
C11_Witness ==
    /\ satisfier.live
    /\ result.op = "insert_sig"
    /\ result.call[1] = "manager"
    /\ result.returned.some
    /\ result.returned.val[1] # result.call[2]
    /\ result.returned.val[2] # SigHashType(result.call[3])
    /\ lookup_sig(satisfier.satisfier, "manager") = Some(Recorded(result.call))
    /\ lookup_sig(satisfier.satisfier, "stakeholder").some

\* C13: the key-hash query for the hash of a key with a recorded signature
\* returns the key with the signature and mode the direct query returns,
\* and nothing for the hash of a key that was never inserted.
C13_PkhLookupAgrees ==
    satisfier.live =>
        \A k \in Keys :
            LET direct == lookup_sig(satisfier.satisfier, k)
                hashed == lookup_pkh_sig(satisfier.satisfier, to_pubkeyhash(k))
            IN  IF direct.some
                THEN hashed = Some(<<to_public_key(k), direct.val>>)
                ELSE hashed = None

\* Two keys recorded in different modes, one overwritten, one never inserted.
C13_Witness ==
    /\ satisfier.live
    /\ result.op = "insert_sig"
    /\ result.returned.some
    /\ lookup_sig(satisfier.satisfier, "manager").some
    /\ lookup_sig(satisfier.satisfier, "cosigner").some
    /\ lookup_sig(satisfier.satisfier, "manager").val[2]
         # lookup_sig(satisfier.satisfier, "cosigner").val[2]
    /\ ~lookup_sig(satisfier.satisfier, "stakeholder").some
    /\ lookup_pkh_sig(satisfier.satisfier, to_pubkeyhash("cosigner")).some

\* C14: an insert_sig call with the key, signature and mode already recorded
\* leaves the two maps as they were, and with them the outcome and the
\* witness of a following satisfy.
C14_InsertSigIdempotent ==
    [][(/\ result'.op = "insert_sig"
        /\ lookup_sig(satisfier.satisfier, result'.call[1])
             = Some(Recorded(result'.call))) =>
         /\ satisfier'.satisfier.sigmap = satisfier.satisfier.sigmap
         /\ satisfier'.satisfier.pkhashmap = satisfier.satisfier.pkhashmap
         /\ Descriptor_satisfy(satisfier'.descriptor, satisfier'.satisfier)
              = Descriptor_satisfy(satisfier.descriptor, satisfier.satisfier)]_vars

\* The call repeated what was recorded, and satisfy succeeds after it.
C14_Witness ==
    /\ satisfier.live
    /\ result.op = "insert_sig"
    /\ result.returned = Some(Recorded(result.call))
    /\ Descriptor_satisfy(satisfier.descriptor, satisfier.satisfier).ok

(***************************************************************************)
(* Properties of the timelock (SpecCsv).                                   *)
(***************************************************************************)
BorrowedSequence == Get(Inputs, satisfier.txin).sequence

BranchesOf(descriptor) == {descriptor.branches[n] : n \in DOMAIN descriptor.branches}

\* C12: the satisfier answers true for a timelock value V exactly when V is
\* the sequence of the input it was created for; a branch with a timelock
\* other than that sequence is not satisfied, whatever signatures are
\* recorded, and satisfy takes no such branch.
C12_ExactTimelock ==
    satisfier.live =>
        /\ \A V \in CsvSequences \cup SequenceValues :
             check_after(satisfier.satisfier, V) <=> (V = BorrowedSequence)
        /\ \A b \in BranchesOf(satisfier.descriptor) :
             (b.timelock.some /\ b.timelock.val # BorrowedSequence) =>
                 ~BranchSatisfied(b, satisfier.satisfier)
        /\ (/\ result.op = "satisfy"
            /\ BorrowedSequence # U32(CSV_VALUE)
            /\ ~lookup_sig(satisfier.satisfier, "stakeholder").some) =>
               result.outcome = "InputSatisfaction"

\* The sequence is one more than the timelock, the keys of the timelocked
\* branch have signed, and satisfy has failed.
C12_Witness ==
    /\ satisfier.live
    /\ BorrowedSequence = U32(CSV_VALUE + 1)
    /\ lookup_sig(satisfier.satisfier, "manager").some
    /\ lookup_sig(satisfier.satisfier, "cosigner").some
    /\ ~lookup_sig(satisfier.satisfier, "stakeholder").some
    /\ result.op = "satisfy"
    /\ result.outcome = "InputSatisfaction"

(***************************************************************************)
(* Properties of satisfy (SpecCsv).                                        *)
(***************************************************************************)
\* C15: after a successful satisfy, and no insert_sig since, satisfy on the
\* same satisfier succeeds again and leaves the transaction, the witness of
\* the input included, as the first call left it.
C15_SatisfyTwice ==
    (satisfier.live /\ result.op = "satisfy" /\ result.outcome = "Ok") =>
        LET again == RevaultSatisfier_satisfy(tx, satisfier)
        IN  /\ again[2] = "Ok"
            /\ again[1] = tx
            /\ Get(inner_tx(again[1]).input, satisfier.txin).witness
                 = Get(Inputs, satisfier.txin).witness

\* satisfy has succeeded on the second input of a transaction, through the
\* timelocked branch.
C15_Witness ==
    /\ satisfier.live
    /\ satisfier.txin = 1
    /\ result.op = "satisfy"
    /\ result.outcome = "Ok"
    /\ Len(Get(Inputs, 1).witness) = 4
    /\ Get(Inputs, 1).witness[3] = [select |-> "csv"]

\* The policy is satisfiable from what the satisfier holds: some branch has
\* a signature for each of its keys and no timelock or the input's sequence.
Satisfiable ==
    \E b \in BranchesOf(satisfier.descriptor) :
        /\ \A i \in DOMAIN b.keys : b.keys[i] \in DOMAIN satisfier.satisfier.sigmap
        /\ b.timelock.some => b.timelock.val = BorrowedSequence

\* C16: satisfy returns the InputSatisfaction error with the descriptor's
\* reason exactly when the policy is not satisfiable from the recorded
\* signatures and the input's sequence; otherwise it succeeds and the
\* input's witness is the one the descriptor produced.
C16_SatisfyOutcome ==
    (satisfier.live /\ result.op = "satisfy") =>
        LET res == Descriptor_satisfy(satisfier.descriptor, satisfier.satisfier)
        IN  IF Satisfiable
            THEN /\ result.outcome = "Ok"
                 /\ res.ok
                 /\ Get(Inputs, satisfier.txin).witness = res.witness
            ELSE /\ result.outcome = "InputSatisfaction"
                 /\ ~res.ok
                 /\ result.message = <<"Script satisfaction error: ", res.err, ".">>
                 /\ res.err = "could not satisfy"

\* satisfy has failed for the timelock alone: the keys of the timelocked
\* branch have signed and the sequence is one less than the timelock.
C16_Witness ==
    /\ satisfier.live
    /\ result.op = "satisfy"
    /\ result.outcome = "InputSatisfaction"
    /\ BorrowedSequence = U32(CSV_VALUE - 1)
    /\ DOMAIN satisfier.satisfier.sigmap = {"manager", "cosigner"}
    /\ ~Satisfied(satisfier.txin)

(***************************************************************************)
(* Properties of verify_revault_transaction (SpecSat).                     *)
(***************************************************************************)
\* The candidates with the transaction id input i refers to.
Matching(i, candidates) ==
    {n \in DOMAIN candidates :
        txid(inner_tx(candidates[n])) = Get(Inputs, i).previous_output.txid}

\* The candidate that decides for input i: the first one matching.
Resolving(i, candidates) ==
    candidates[CHOOSE n \in Matching(i, candidates) :
                   \A o \in Matching(i, candidates) : n <= o]

\* Input i's previous output resolves in the candidates: one of them has the
\* referenced transaction id, and an output at the referenced index.
Resolves(i, candidates) ==
    /\ Matching(i, candidates) # {}
    /\ Get(Inputs, i).previous_output.vout[1] = 0
    /\ Get(Inputs, i).previous_output.vout[2]
         < Len(inner_tx(Resolving(i, candidates)).output)

\* What the oracle answers for input i and its resolved previous output.
OracleCode(i, candidates) ==
    LET txo == Get(inner_tx(Resolving(i, candidates)).output,
                   Get(Inputs, i).previous_output.vout[2])
    IN  bitcoinconsensus_verify(txo.script_pubkey, txo.value, inner_tx(tx), i)

Passes(i, candidates) ==
    Resolves(i, candidates) /\ OracleCode(i, candidates) = "Ok"

InputIndexes == 0..(Len(Inputs) - 1)

\* The first input that does not pass.
FirstFailing(candidates) ==
    CHOOSE i \in InputIndexes :
        /\ ~Passes(i, candidates)
        /\ \A j \in InputIndexes : ~Passes(j, candidates) => i <= j

\* C17 as stated: whenever some input's previous output does not resolve in
\* the candidates, verification fails with the unresolved-output error,
\* naming an input that does not resolve.
C17_UnresolvedAlwaysReported ==
    (result.op = "verify"
       /\ \E i \in InputIndexes : ~Resolves(i, result.previous_transactions)) =>
        /\ ~result.ok
        /\ result.err[1] = "Unknown txout refered by txin "
        /\ \E i \in InputIndexes :
             /\ ~Resolves(i, result.previous_transactions)
             /\ result.err[2] = Get(Inputs, i)

\* C17, amended: whenever some input's previous output does not resolve,
\* verification fails; the error is the unresolved-output one, naming the
\* input, when the first input that does not pass is an unresolved one, and
\* the oracle's error for an earlier input otherwise.
C17_FirstFailureReported ==
    (result.op = "verify"
       /\ \E i \in InputIndexes : ~Resolves(i, result.previous_transactions)) =>
        LET first == FirstFailing(result.previous_transactions)
        IN  /\ ~result.ok
            /\ IF ~Resolves(first, result.previous_transactions)
               THEN result.err = <<"Unknown txout refered by txin ", Get(Inputs, first)>>
               ELSE result.err[1] = "Bitcoinconsensus error: "

\* The first input passes against the Unvault transaction, the second one's
\* previous output is not among the candidates and is the one reported.
C17_Witness ==
    /\ result.op = "verify"
    /\ Len(Inputs) = 2
    /\ result.previous_transactions = <<unvault_tx>>
    /\ Passes(0, result.previous_transactions)
    /\ ~result.ok
    /\ result.err = <<"Unknown txout refered by txin ", Get(Inputs, 1)>>

\* C18: verification succeeds exactly when every input's previous output
\* resolves and the oracle accepts the input; a rejection by the oracle is
\* returned as the error with the oracle's code.
C18_VerifyIffAllPass ==
    result.op = "verify" =>
        /\ result.ok <=> \A i \in InputIndexes : Passes(i, result.previous_transactions)
        /\ ~result.ok =>
             LET first == FirstFailing(result.previous_transactions)
             IN  Resolves(first, result.previous_transactions) =>
                   /\ result.err[1] = "Bitcoinconsensus error: "
                   /\ result.err[2] = OracleCode(first, result.previous_transactions)
                   /\ result.err[2] # "Ok"

\* A Cancel transaction without fee-bump input, satisfied, has verified
\* against the Unvault transaction.
C18_Witness ==
    /\ result.op = "verify"
    /\ tx.kind = "Cancel"
    /\ Len(Inputs) = 1
    /\ Satisfied(0)
    /\ result.previous_transactions = <<unvault_tx>>
    /\ result.ok

\* What the oracle answers for input i against the output it spends.
SpentPasses(i) == Passes(i, ChainTransactions)

UnvaultSighash ==
    UnvaultTransaction_signature_hash(
        tx, 0, RevaultTxOut("VaultTxOut", Get(inner_tx(vault_tx).output, 0)),
        Descriptor_witness_script(vault_descriptor))

UnvaultWitness ==
    <<[sig |-> Sign("manager", UnvaultSighash), sighash_type |-> "All"],
      [sig |-> Sign("stakeholder", UnvaultSighash), sighash_type |-> "All"],
      [select |-> "all"],
      [script |-> Descriptor_witness_script(vault_descriptor)]>>

\* C20: an Unvault transaction spending the Vault transaction's output, its
\* input satisfied with the signatures of all the participants over the
\* signature hash taken against the Vault output and the vault script code,
\* verifies against the Vault transaction alone.
C20_UnvaultChainVerifies ==
    (/\ tx.kind = "Unvault"
     /\ Get(Inputs, 0).previous_output = into_prevout(vault_tx, U32(0))
     /\ Get(Inputs, 0).witness = UnvaultWitness) =>
        /\ verify_revault_transaction(tx, <<vault_tx>>).ok
        /\ (result.op = "verify" /\ result.previous_transactions = <<vault_tx>>) =>
             result.ok

C20_Witness ==
    /\ tx.kind = "Unvault"
    /\ Get(Inputs, 0).previous_output = into_prevout(vault_tx, U32(0))
    /\ Get(Inputs, 0).witness = UnvaultWitness
    /\ result.op = "verify"
    /\ result.previous_transactions = <<vault_tx>>
    /\ result.ok

(***************************************************************************)
(* Properties of the life of a transaction (SpecSat).                      *)
(***************************************************************************)
\* C21 as stated: the content of a transaction changes only by a satisfy
\* that sets a witness, and not at all once verify_revault_transaction has
\* returned Ok for it.
C21_FrozenAfterVerify ==
    [][(tx.kind # "None" /\ tx'.kind # "None" /\ tx' # tx) =>
         /\ result'.op = "satisfy"
         /\ WithoutWitnesses(tx') = WithoutWitnesses(tx)
         /\ ~verified]_vars

(***************************************************************************)
(* Retrying satisfy (SpecCsv).                                             *)
(***************************************************************************)
\* The keys with a recorded signature.
RecordedKeys == DOMAIN satisfier.satisfier.sigmap

\* The keys K cover a branch of the policy the input's sequence allows.
Covers(K) ==
    \E b \in BranchesOf(satisfier.descriptor) :
        /\ \A i \in DOMAIN b.keys : b.keys[i] \in K
        /\ b.timelock.some => b.timelock.val = BorrowedSequence

\* The satisfier after one more insert_sig call.
AfterInsert(a) ==
    [satisfier EXCEPT !.satisfier =
        RevaultInputSatisfier_insert_sig(satisfier.satisfier, a[1], a[2], a[3])[1]]

\* C22: a satisfy that failed has left the recorded signatures as they
\* were, and once one more insert_sig brings the recorded keys to cover a
\* branch of the policy, satisfy on the same satisfier succeeds.
C22_SatisfyRetry ==
    /\ [][result'.op = "satisfy" => satisfier' = satisfier]_vars
    /\ [](/\ satisfier.live
          /\ result.op = "satisfy"
          /\ result.outcome = "InputSatisfaction"
          => \A a \in SpendInsertions :
                Covers(RecordedKeys \cup {a[1]}) =>
                    /\ RecordedKeys \subseteq DOMAIN AfterInsert(a).satisfier.sigmap
                    /\ RevaultSatisfier_satisfy(tx, AfterInsert(a))[2] = "Ok")

\* satisfy has failed with one signature recorded; the signature of the
\* cosigner is what the timelocked branch still needs.
C22_Witness ==
    /\ satisfier.live
    /\ result.op = "satisfy"
    /\ result.outcome = "InputSatisfaction"
    /\ RecordedKeys = {"manager"}
    /\ BorrowedSequence = U32(CSV_VALUE)
    /\ Covers(RecordedKeys \cup {"cosigner"})

Unsigned == UnvaultTransaction_new(args.main[1], args.txouts[1], args.txouts[2])

\* A Cancel transaction spending the first output of parent.
ChildOf(parent) ==
    CancelTransaction_new(
        <<Prevout("UnvaultPrevout", into_prevout(parent, U32(0))), RBF_SEQUENCE>>,
        None,
        CHOOSE v \in VaultTxOuts : TRUE)

\* C24: satisfy leaves into_prevout(i) of the transaction as it was, for
\* every i; and the child constructed on the Unvault transaction before it
\* was signed refers to the transaction as it is now, and resolves against
\* it to its first output.
C24_PrevoutStable ==
    /\ [][(tx.kind # "None" /\ result'.op = "satisfy") =>
            \A v \in 0..MaxOutputs :
                into_prevout(tx', U32(v)) = into_prevout(tx, U32(v))]_vars
    /\ [](tx.kind = "Unvault" =>
            LET previous_output ==
                    Get(inner_tx(ChildOf(Unsigned)).input, 0).previous_output
            IN  /\ previous_output = into_prevout(tx, U32(0))
                /\ get_prev_script_and_value(previous_output, <<tx>>)
                     = Some(<<Get(Outputs, 0).script_pubkey, Get(Outputs, 0).value>>))

\* The Unvault transaction has just been satisfied and is no longer the one
\* constructed.
C24_Witness ==
    /\ tx.kind = "Unvault"
    /\ result.op = "satisfy"
    /\ result.outcome = "Ok"
    /\ Satisfied(0)
    /\ tx # Unsigned

(***************************************************************************)
(* What a satisfier changes (SpecCsv).                                     *)
(***************************************************************************)
\* C25: across an insert_sig or a satisfy of the satisfier of input i, the
\* version, the lock-time, the outputs, the other inputs and input i's
\* previous output and sequence stay as they were; across a satisfy that
\* fails, the whole transaction does, input i's witness included.
C25_OnlyTheWitness ==
    [][(satisfier.live /\ result'.op \in {"insert_sig", "satisfy"}) =>
         LET i == satisfier.txin
             old == inner_tx(tx)
             new == inner_tx(tx')
         IN  /\ tx'.kind = tx.kind
             /\ new.version = old.version
             /\ new.lock_time = old.lock_time
             /\ new.output = old.output
             /\ Len(new.input) = Len(old.input)
             /\ \A j \in 0..(Len(old.input) - 1) :
                    j # i => Get(new.input, j) = Get(old.input, j)
             /\ Get(new.input, i).previous_output = Get(old.input, i).previous_output
             /\ Get(new.input, i).sequence = Get(old.input, i).sequence
             /\ (result'.op = "satisfy" /\ result'.outcome # "Ok") => tx' = tx]_vars

\* A satisfier of an input satisfied earlier has failed, on a transaction of
\* two inputs, and the input still has its witness.
C25_Witness ==
    /\ satisfier.live
    /\ result.op = "satisfy"
    /\ result.outcome = "InputSatisfaction"
    /\ Len(Inputs) = 2
    /\ Satisfied(satisfier.txin)

(***************************************************************************)
(* The order of verification (SpecSat).                                    *)
(***************************************************************************)
\* C26: when some input does not pass, verification fails with the error
\* of the first such input, the oracle's code if its previous output
\* resolves and the unresolved-output error if not, and the oracle has been
\* invoked for the inputs before it, in increasing order, for that input
\* if it resolves, and for no later one; when every input passes the
\* oracle has been invoked for each, in increasing order.
C26_StopsAtFirstFailure ==
    result.op = "verify" =>
        LET candidates == result.previous_transactions
        IN  IF \A i \in InputIndexes : Passes(i, candidates)
            THEN /\ result.ok
                 /\ result.oracle = [k \in 1..Len(Inputs) |-> k - 1]
            ELSE LET first == FirstFailing(candidates)
                     last == IF Resolves(first, candidates) THEN first + 1 ELSE first
                 IN  /\ ~result.ok
                     /\ result.err =
                          IF Resolves(first, candidates)
                          THEN <<"Bitcoinconsensus error: ", OracleCode(first, candidates)>>
                          ELSE <<"Unknown txout refered by txin ", Get(Inputs, first)>>
                     /\ result.oracle = [k \in 1..last |-> k - 1]
                     /\ \A k \in DOMAIN result.oracle : result.oracle[k] <= first

\* Of two inputs, the first is rejected by the oracle and the second would
\* pass: the oracle was invoked for the first only.
C26_Witness ==
    /\ result.op = "verify"
    /\ Len(Inputs) = 2
    /\ Resolves(0, result.previous_transactions)
    /\ ~Passes(0, result.previous_transactions)
    /\ Passes(1, result.previous_transactions)
    /\ ~result.ok
    /\ result.err[1] = "Bitcoinconsensus error: "
    /\ result.oracle = <<0>>

====
